---- MODULE Spec2Model ----
(***************************************************************************)
(* A model of cli.h: the argument classifier cli_parse, the fixed-capacity *)
(* CliStringArray it fills (cli_da_init, cli_da_append), cli_free, and the *)
(* process-wide style strings flipped by cli_toggle_colors.                *)
(*                                                                         *)
(* Strings are sequences of one-character strings; a C string is read with *)
(* CharAt, which yields NUL at the terminator.  A `const char*` that       *)
(* points at a token is the index of the token in argv (the arrays borrow  *)
(* the tokens, they never copy them).  A `const char**` returned by        *)
(* CLI_MALLOC is a block id, and mem maps every live block to its slots.   *)
(* The library is built as the header builds by default: CLI_ASSERT and    *)
(* assert are those of <assert.h> with assertions enabled, styles are on   *)
(* (CLI_NO_STYLES undefined) and CLI_DEFAULT_ARR_CAP is 5.                  *)
(***************************************************************************)
EXTENDS Integers, Sequences, FiniteSets, TLC

\* ---------------------------------------------------------------- bounds
\* The longest argument vector explored over the three token classes, the
\* invocation path included: long enough to overflow an array of
\* CLI_DEFAULT_ARR_CAP slots and still have tokens to come.
MaxArgc == 8
\* The longest argument vector explored over the wider alphabet of tokens
\* that differ in their first three characters.
MaxEdgeArgc == 5

\* ------------------------------------------------------ program constants
CLI_DEFAULT_ARR_CAP == 5
\* unsigned short length / capacity wrap modulo 2^16
USHRT_MOD == 65536
\* the null pointer, also the zero of `(struct Cli) { 0 }`
NULL == 0
\* a value nothing has written yet: a field of the caller's `Cli cli;`
\* before cli_parse, a slot of a freshly allocated block
Indeterminate == -1

NUL == "NUL"
ESC == "ESC"

CliErrorOk == "CliErrorOk"
CliErrorUser == "CliErrorUser"
CliErrorFatal == "CliErrorFatal"

\* The three classes of token cli_parse tells apart: a positional token, an
\* option, the separator.
Tokens == { <<"a">>, <<"-", "a">>, <<"-", "-">> }
\* Tokens on the edges of the tests arg[0] == '-', arg[1] == '-' and
\* arg[2] == '\0': the empty string, a lone dash, an option that starts like
\* the separator.
EdgeTokens == Tokens \cup { <<>>, <<"-">>, <<"-", "-", "a">> }
ExecToken == <<"c", "h", "i">>

\* All sequences over S of length 0..n.
RECURSIVE SeqsUpTo(_, _)
SeqsUpTo(S, n) ==
  IF n = 0 THEN { <<>> }
  ELSE LET shorter == SeqsUpTo(S, n - 1)
       IN shorter \cup { Append(s, t) : s \in { x \in shorter : Len(x) = n - 1 }, t \in S }

\* The argument vectors the process can be started with: empty (argc = 0),
\* or the invocation path followed by tokens.
ArgVectors ==
  { <<>> }
    \cup { <<ExecToken>> \o s : s \in SeqsUpTo(Tokens, MaxArgc - 1) }
    \cup { <<ExecToken>> \o s : s \in SeqsUpTo(EdgeTokens, MaxEdgeArgc - 1) }

VARIABLES
  argv0,          \* the argument vector main() received
  argc,           \* cli_parse's local copy of argc
  argv,           \* cli_parse's local argv pointer: index of the next token
  cli,            \* the caller's Cli
  is_cmd_option,  \* cli_parse's scope flag
  mem,            \* the heap: live block id -> slots
  malloc_calls,   \* number of CLI_MALLOC calls made so far
  pc,             \* "main", "loop", "returned", "aborted", "freed", "crashed"
  ret,            \* cli_parse's return value, once it returned
  CLI_RESET, CLI_BOLD, CLI_DIM, CLI_FORE_RED, CLI_FORE_BRBLUE,
  toggles,        \* cli_toggle_colors calls made in a row, counted up to 2
  before1,        \* the style strings before the latest call of that row
  before2         \* the style strings before the latest two calls of it

parse_vars == <<argv0, argc, argv, cli, is_cmd_option, mem, malloc_calls, pc, ret>>
style_vars == <<CLI_RESET, CLI_BOLD, CLI_DIM, CLI_FORE_RED, CLI_FORE_BRBLUE>>
hist_vars == <<toggles, before1, before2>>
vars == <<parse_vars, style_vars, hist_vars>>

\* ----------------------------------------------------------------- strings
\* s[i] of a C string, i <= strlen(s).
CharAt(s, i) == IF i < Len(s) THEN s[i + 1] ELSE NUL

\* The token a `const char*` into the argument vector points at.
Deref(p) == argv0[p]

\* -------------------------------------------------------------- the arrays
UninitArray == [length |-> Indeterminate, capacity |-> Indeterminate, data |-> Indeterminate]
ZeroArray == [length |-> 0, capacity |-> 0, data |-> NULL]
UninitCli == [execfile |-> Indeterminate, command |-> Indeterminate,
              args |-> UninitArray, cmd_options |-> UninitArray,
              program_options |-> UninitArray]
ZeroCli == [execfile |-> NULL, command |-> NULL,
            args |-> ZeroArray, cmd_options |-> ZeroArray,
            program_options |-> ZeroArray]

FreshBlock == [k \in 1..CLI_DEFAULT_ARR_CAP |-> Indeterminate]

\* cli_da_init: capacity, then length, then data from the allocator
\* (ptr is what CLI_MALLOC returned: a block id, or NULL).
cli_da_init(ptr) ==
  [capacity |-> CLI_DEFAULT_ARR_CAP, length |-> 0, data |-> ptr]

\* cli_da_append with the index off by one: data[length] = item.
cli_da_append_next_slot(array, item, m) ==
  LET len == (array.length + 1) % USHRT_MOD
  IN IF len > array.capacity
     THEN [array |-> [array EXCEPT !.length = len], mem |-> m, aborted |-> TRUE]
     ELSE [array |-> [array EXCEPT !.length = len],
           mem |-> IF len + 1 \in DOMAIN m[array.data]
                   THEN [m EXCEPT ![array.data][len + 1] = item] ELSE m,
           aborted |-> FALSE]

\* cli_da_append: ++length first; the assertion stops the process when the
\* new length exceeds the capacity; otherwise data[length - 1] = item.
cli_da_append(array, item, m) ==
  LET len == (array.length + 1) % USHRT_MOD
  IN IF len > array.capacity
     THEN [array |-> [array EXCEPT !.length = len], mem |-> m, aborted |-> TRUE]
     ELSE [array |-> [array EXCEPT !.length = len],
           mem |-> [m EXCEPT ![array.data][len] = item],
           aborted |-> FALSE]

\* ------------------------------------------------------------------- styles
Empty == <<>>
StyleOf(r, b, d, fr, fb) ==
  [CLI_RESET |-> r, CLI_BOLD |-> b, CLI_DIM |-> d, CLI_FORE_RED |-> fr, CLI_FORE_BRBLUE |-> fb]
Style == StyleOf(CLI_RESET, CLI_BOLD, CLI_DIM, CLI_FORE_RED, CLI_FORE_BRBLUE)

StylesOff == StyleOf(Empty, Empty, Empty, Empty, Empty)
StylesOn ==
  StyleOf(<<ESC, "[", "0", "m">>, <<ESC, "[", "1", "m">>, <<ESC, "[", "2", "m">>,
          <<ESC, "[", "3", "1", "m">>, <<ESC, "[", "9", "4", "m">>)

\* cli_toggle_colors with CLI_DIM forgotten in the branch that clears.
ToggledStyle_keeps_dim(s) ==
  IF CharAt(s.CLI_RESET, 0) # NUL
  THEN [StylesOff EXCEPT !.CLI_DIM = s.CLI_DIM]
  ELSE StylesOn

\* cli_toggle_colors without the branch that clears.
ToggledStyle_never_off(s) == StylesOn

\* The body of cli_toggle_colors: the five strings after the call.
ToggledStyle(s) == IF CharAt(s.CLI_RESET, 0) # NUL THEN StylesOff ELSE StylesOn

\* ---------------------------------------------------------------- Init
Init ==
  /\ argv0 \in ArgVectors
  /\ argc = Len(argv0)
  /\ argv = 1
  /\ cli = UninitCli
  /\ is_cmd_option = FALSE
  /\ mem = <<>>
  /\ malloc_calls = 0
  /\ pc = "main"
  /\ ret = "none"
  /\ CLI_RESET = Empty /\ CLI_BOLD = Empty /\ CLI_DIM = Empty
  /\ CLI_FORE_RED = Empty /\ CLI_FORE_BRBLUE = Empty
  /\ toggles = 0
  /\ before1 = StylesOff
  /\ before2 = StylesOff

\* ------------------------------------------------------------- cli_parse
\* cli_pop_argv: CLI_ASSERT(*argc); (*argc)--; return *((*argv)++).
cli_pop_argv(n, p) ==
  [aborted |-> (n = 0), argc |-> n - 1, argv |-> p + 1, value |-> p]

\* cli_parse with the three arrays set up first and the NULL checks after.
cli_parse_alloc_late_check(c, m, execfile, fail) ==
  LET ptr(k) == IF fail = k THEN NULL ELSE k
      c3 == [c EXCEPT !.execfile = execfile,
                      !.args = cli_da_init(ptr(1)),
                      !.cmd_options = cli_da_init(ptr(2)),
                      !.program_options = cli_da_init(ptr(3))]
      m3 == [b \in (DOMAIN m \cup ({1, 2, 3} \ {fail})) |->
               IF b \in DOMAIN m THEN m[b] ELSE FreshBlock]
  IN [cli |-> c3, mem |-> m3, calls |-> 3,
      ret |-> IF fail = 0 THEN "none" ELSE CliErrorFatal]

\* The three cli_da_init calls of cli_parse and the NULL check after each.
\* fail is the first CLI_MALLOC call that returns NULL (0: none does).
cli_parse_alloc(c, m, execfile, fail) ==
  LET c0 == [c EXCEPT !.execfile = execfile]
      c1 == [c0 EXCEPT !.args = cli_da_init(IF fail = 1 THEN NULL ELSE 1)]
      m1 == IF fail = 1 THEN m ELSE m @@ (1 :> FreshBlock)
      c2 == [c1 EXCEPT !.cmd_options = cli_da_init(IF fail = 2 THEN NULL ELSE 2)]
      m2 == IF fail = 2 THEN m1 ELSE m1 @@ (2 :> FreshBlock)
      c3 == [c2 EXCEPT !.program_options = cli_da_init(IF fail = 3 THEN NULL ELSE 3)]
      m3 == IF fail = 3 THEN m2 ELSE m2 @@ (3 :> FreshBlock)
  IN IF c1.args.data = NULL
     THEN [cli |-> c1, mem |-> m1, calls |-> 1, ret |-> CliErrorFatal]
     ELSE IF c2.cmd_options.data = NULL
     THEN [cli |-> c2, mem |-> m2, calls |-> 2, ret |-> CliErrorFatal]
     ELSE IF c3.program_options.data = NULL
     THEN [cli |-> c3, mem |-> m3, calls |-> 3, ret |-> CliErrorFatal]
     ELSE [cli |-> c3, mem |-> m3, calls |-> 3, ret |-> "none"]

\* The else branch without the zeroing: only execfile is set.
cli_parse_zero_unzeroed(execfile) == [UninitCli EXCEPT !.execfile = execfile]

\* The else branch of cli_parse: *cli = (struct Cli) { 0 }; execfile set.
cli_parse_zero(execfile) == [ZeroCli EXCEPT !.execfile = execfile]

\* The two option arrays the wrong way round.
option_array_swapped(is_cmd) == IF is_cmd THEN "program_options" ELSE "cmd_options"

\* option_array = is_cmd_option ? &cli->cmd_options : &cli->program_options
option_array(is_cmd) == IF is_cmd THEN "cmd_options" ELSE "program_options"

\* The separator test without arg[2] == '\0'.
IsDoubleDash_prefix(arg) == CharAt(arg, 1) = "-"

\* arg[1] == '-' && arg[2] == '\0', evaluated when arg[0] == '-'
IsDoubleDash(arg) == CharAt(arg, 1) = "-" /\ CharAt(arg, 2) = NUL

\* One iteration of the while loop on the popped token p.
cli_parse_step(c, m, is_cmd, p) ==
  LET arg == Deref(p)
      stay(outcome) == [cli |-> c, mem |-> m, is_cmd_option |-> is_cmd, outcome |-> outcome]
      appended(field) ==
        LET r == cli_da_append(c[field], p, m)
        IN [cli |-> [c EXCEPT ![field] = r.array], mem |-> r.mem,
            is_cmd_option |-> is_cmd,
            outcome |-> IF r.aborted THEN "aborted" ELSE "continue"]
  IN IF CharAt(arg, 0) = "-"
     THEN IF IsDoubleDash(arg)
          THEN IF c.args.length > 0
               THEN stay("user")
               ELSE [stay("continue") EXCEPT !.is_cmd_option = TRUE]
          ELSE appended(option_array(is_cmd))
     ELSE appended("args")

NoToggle == toggles' = 0 /\ before1' = StylesOff /\ before2' = StylesOff

\* cli_parse entered with argc = 0: CLI_ASSERT(*argc) stops the process.
cli_parse_noargv ==
  /\ pc = "main"
  /\ cli_pop_argv(argc, argv).aborted
  /\ pc' = "aborted"
  /\ NoToggle
  /\ UNCHANGED <<argv0, argc, argv, cli, is_cmd_option, mem, malloc_calls, ret, style_vars>>

\* cli_parse entered with tokens after the invocation path: the arrays are
\* allocated, and a failed allocation returns CliErrorFatal.
cli_parse_init ==
  /\ pc = "main"
  /\ LET pop == cli_pop_argv(argc, argv)
     IN /\ ~pop.aborted
        /\ pop.argc > 0
        /\ argc' = pop.argc
        /\ argv' = pop.argv
        /\ \E fail \in 0..3 :
             LET r == cli_parse_alloc(cli, mem, pop.value, fail)
             IN /\ cli' = r.cli
                /\ mem' = r.mem
                /\ malloc_calls' = malloc_calls + r.calls
                /\ ret' = r.ret
                /\ pc' = IF r.ret = CliErrorFatal THEN "returned" ELSE "loop"
  /\ is_cmd_option' = FALSE
  /\ NoToggle
  /\ UNCHANGED <<argv0, style_vars>>

\* cli_parse entered with the invocation path alone.
cli_parse_empty ==
  /\ pc = "main"
  /\ LET pop == cli_pop_argv(argc, argv)
     IN /\ ~pop.aborted
        /\ ~(pop.argc > 0)
        /\ argc' = pop.argc
        /\ argv' = pop.argv
        /\ cli' = cli_parse_zero(pop.value)
  /\ pc' = "returned"
  /\ ret' = CliErrorOk
  /\ NoToggle
  /\ UNCHANGED <<argv0, is_cmd_option, mem, malloc_calls, style_vars>>

\* One iteration of `while (argc)`.
cli_parse_loop ==
  /\ pc = "loop"
  /\ argc # 0
  /\ LET pop == cli_pop_argv(argc, argv)
         r == cli_parse_step(cli, mem, is_cmd_option, pop.value)
     IN /\ argc' = pop.argc
        /\ argv' = pop.argv
        /\ cli' = r.cli
        /\ mem' = r.mem
        /\ is_cmd_option' = r.is_cmd_option
        /\ pc' = CASE r.outcome = "continue" -> "loop"
                   [] r.outcome = "user" -> "returned"
                   [] r.outcome = "aborted" -> "aborted"
        /\ ret' = IF r.outcome = "user" THEN CliErrorUser ELSE ret
  /\ NoToggle
  /\ UNCHANGED <<argv0, malloc_calls, style_vars>>

\* The loop ends: return CliErrorOk.
cli_parse_return ==
  /\ pc = "loop"
  /\ argc = 0
  /\ pc' = "returned"
  /\ ret' = CliErrorOk
  /\ NoToggle
  /\ UNCHANGED <<argv0, argc, argv, cli, is_cmd_option, mem, malloc_calls, style_vars>>

\* --------------------------------------------------------------- cli_free
DataPointers(c) == <<c.args.data, c.cmd_options.data, c.program_options.data>>

\* CLI_FREE(ptr) on the heap: a live block is released, NULL is a no-op.
FreeBlock(m, ptr) ==
  IF ptr \in DOMAIN m THEN [b \in DOMAIN m \ {ptr} |-> m[b]] ELSE m

\* The heap after the three CLI_FREE calls.
cli_free_mem(c, m) ==
  FreeBlock(FreeBlock(FreeBlock(m, c.args.data), c.cmd_options.data), c.program_options.data)

\* cli_free after cli_parse returned.  CLI_FREE of a pointer cli_parse never
\* set is undefined: it may pass unnoticed (here) or stop the process (below).
cli_free ==
  /\ pc = "returned"
  /\ mem' = cli_free_mem(cli, mem)
  /\ pc' = "freed"
  /\ NoToggle
  /\ UNCHANGED <<argv0, argc, argv, cli, is_cmd_option, malloc_calls, ret, style_vars>>

cli_free_crash ==
  /\ pc = "returned"
  /\ \E k \in 1..3 :
       /\ DataPointers(cli)[k] = Indeterminate
       /\ \A j \in 1..(k - 1) : DataPointers(cli)[j] # Indeterminate
       /\ mem' = [b \in DOMAIN mem \ { DataPointers(cli)[j] : j \in 1..(k - 1) } |-> mem[b]]
  /\ pc' = "crashed"
  /\ NoToggle
  /\ UNCHANGED <<argv0, argc, argv, cli, is_cmd_option, malloc_calls, ret, style_vars>>

\* ------------------------------------------------------ cli_toggle_colors
\* Called by the program around cli_parse, never inside it.
cli_toggle_colors ==
  /\ pc \in {"main", "returned", "freed"}
  /\ LET s == ToggledStyle(Style)
     IN /\ CLI_RESET' = s.CLI_RESET
        /\ CLI_BOLD' = s.CLI_BOLD
        /\ CLI_DIM' = s.CLI_DIM
        /\ CLI_FORE_RED' = s.CLI_FORE_RED
        /\ CLI_FORE_BRBLUE' = s.CLI_FORE_BRBLUE
  /\ toggles' = IF toggles < 2 THEN toggles + 1 ELSE 2
  /\ before1' = Style
  /\ before2' = before1
  /\ UNCHANGED parse_vars

Next ==
  \/ cli_parse_noargv
  \/ cli_parse_init
  \/ cli_parse_empty
  \/ cli_parse_loop
  \/ cli_parse_return
  \/ cli_free
  \/ cli_free_crash
  \/ cli_toggle_colors

Spec == Init /\ [][Next]_vars

\* =================================================================
\* What the claims speak of, read off the argument vector itself.
\* =================================================================
StartsWithDash(tok) == Len(tok) > 0 /\ tok[1] = "-"
IsSeparator(tok) == tok = <<"-", "-">>
IsOption(tok) == StartsWithDash(tok) /\ ~IsSeparator(tok)
IsPositional(tok) == ~StartsWithDash(tok)

Fields == {"args", "cmd_options", "program_options"}
Slots == 1..CLI_DEFAULT_ARR_CAP

\* cli_parse was entered with tokens after the invocation path and every
\* allocation succeeded.
Allocated == Len(argv0) > 1 /\ pc # "main" /\ ret # CliErrorFatal
ReturnedOk == pc = "returned" /\ ret = CliErrorOk
ReturnedUser == pc = "returned" /\ ret = CliErrorUser

\* The slot k of array f, as the caller reads it.
Slot(f, k) ==
  IF cli[f].data \in DOMAIN mem /\ k \in DOMAIN mem[cli[f].data]
  THEN mem[cli[f].data][k] ELSE Indeterminate

\* How many (array, index < length) places hold the token at argv index i.
Occurrences(i) ==
  Cardinality({ fk \in Fields \X Slots : fk[2] <= cli[fk[1]].length /\ Slot(fk[1], fk[2]) = i })

SeparatorCount == Cardinality({ i \in 2..Len(argv0) : IsSeparator(argv0[i]) })

\* C1: whenever cli_parse returns CliErrorOk on an argument vector with a
\* token after the invocation path, every such token that is not `--` is
\* stored in exactly one place of exactly one array, no `--` is stored, and
\* the three lengths plus the number of `--` tokens add up to argc - 1.
C1_TokensAccounted ==
  (ReturnedOk /\ Len(argv0) > 1) =>
    /\ \A i \in 2..Len(argv0) :
         Occurrences(i) = IF IsSeparator(argv0[i]) THEN 0 ELSE 1
    /\ cli.args.length + cli.cmd_options.length + cli.program_options.length
         + SeparatorCount = Len(argv0) - 1

C1_Witness ==
  /\ ReturnedOk
  /\ SeparatorCount >= 2
  /\ cli.args.length > 0 /\ cli.cmd_options.length > 0 /\ cli.program_options.length > 0

\* The tokens popped by the loop so far, as argv indices in order.
Popped == [k \in 1..(argv - 2) |-> k + 1]
\* No `--` stands before argv index i.
ProgramScope(i) == \A j \in 2..(i - 1) : ~IsSeparator(argv0[j])

ExpectedArgs == SelectSeq(Popped, LAMBDA i : IsPositional(argv0[i]))
ExpectedProgramOptions ==
  SelectSeq(Popped, LAMBDA i : IsOption(argv0[i]) /\ ProgramScope(i))
ExpectedCmdOptions ==
  SelectSeq(Popped, LAMBDA i : IsOption(argv0[i]) /\ ~ProgramScope(i))

\* Array f counts exactly the tokens of expected and holds them in order (as
\* far as its storage reaches).
Holds(f, expected) ==
  /\ cli[f].length = Len(expected)
  /\ \A k \in Slots : k <= Len(expected) => Slot(f, k) = expected[k]

\* C2: an option token goes to program_options when no `--` came before it
\* and to cmd_options otherwise, a token not starting with `-` goes to args
\* in either scope; the scope flag is set exactly when a `--` has been
\* accepted and is never cleared again.
C2_ScopeRouting ==
  (Allocated /\ pc \in {"loop", "returned", "aborted"}) =>
    /\ Holds("args", ExpectedArgs)
    /\ Holds("program_options", ExpectedProgramOptions)
    /\ Holds("cmd_options", ExpectedCmdOptions)
    /\ (pc = "loop" \/ ReturnedOk) =>
         (is_cmd_option <=> \E j \in 2..(argv - 1) : IsSeparator(argv0[j]))

\* The example of the claim: [exec, "-a", "--", "-b"], the two options
\* being the tokens at argv indices 2 and 4.
C2_Witness ==
  /\ ReturnedOk
  /\ argv0 = <<ExecToken, <<"-", "a">>, <<"-", "-">>, <<"-", "a">> >>
  /\ cli.program_options.length = 1 /\ Slot("program_options", 1) = 2
  /\ cli.cmd_options.length = 1 /\ Slot("cmd_options", 1) = 4
  /\ cli.args.length = 0

\* A `--` at argv index i that follows a positional token.
SeparatorAfterPositional(i) ==
  /\ i \in 2..Len(argv0)
  /\ IsSeparator(argv0[i])
  /\ \E j \in 2..(i - 1) : IsPositional(argv0[j])
FirstSeparatorAfterPositional ==
  CHOOSE i \in 2..Len(argv0) :
    SeparatorAfterPositional(i) /\ \A j \in 2..(i - 1) : ~SeparatorAfterPositional(j)

\* C3: on every argument vector with a `--` after a positional token,
\* cli_parse returns CliErrorUser at the first such `--`, with the arrays
\* holding exactly the tokens classified before it.
C3_UserErrorAlways ==
  (Allocated /\ pc \in {"returned", "aborted"}
     /\ \E i \in 2..Len(argv0) : SeparatorAfterPositional(i)) =>
    /\ ReturnedUser
    /\ argv = FirstSeparatorAfterPositional + 1
    /\ Holds("args", ExpectedArgs)
    /\ Holds("program_options", ExpectedProgramOptions)
    /\ Holds("cmd_options", ExpectedCmdOptions)

\* C4: length <= capacity for each of the three arrays, in every state
\* after cli_da_init set them up.
C4_LengthWithinCapacity ==
  \A f \in Fields :
    cli[f].capacity # Indeterminate => cli[f].length <= cli[f].capacity

\* C5: after cli_parse returned CliErrorOk or CliErrorUser, each array holds
\* pointers to tokens of the argument vector in the order of the vector.
C5_OrderPreserved ==
  (Allocated /\ (ReturnedOk \/ ReturnedUser)) =>
    \A f \in Fields :
      /\ cli[f].length <= CLI_DEFAULT_ARR_CAP
      /\ \A k \in Slots : k <= cli[f].length => Slot(f, k) \in 2..Len(argv0)
      /\ \A k, l \in Slots :
           (k < l /\ l <= cli[f].length) => Slot(f, k) < Slot(f, l)

C5_Witness ==
  /\ ReturnedOk
  /\ cli.args.length >= 2 /\ cli.cmd_options.length >= 2
  /\ cli.program_options.length >= 2
  /\ Slot("args", 1) < Slot("cmd_options", 1)
  /\ Slot("cmd_options", 1) < Slot("args", 2)

\* C6: on every argument vector of one or more positional tokens, of any
\* length, cli_parse returns CliErrorOk with all of them in args in order
\* and with cmd_options and program_options empty.
C6_AllPositional ==
  (Allocated /\ pc \in {"returned", "aborted"}
     /\ \A i \in 2..Len(argv0) : IsPositional(argv0[i])) =>
    /\ ReturnedOk
    /\ cli.args.length = Len(argv0) - 1
    /\ \A k \in Slots : k <= cli.args.length => Slot("args", k) = k + 1
    /\ cli.cmd_options.length = 0
    /\ cli.program_options.length = 0

\* C7: with the invocation path alone cli_parse returns CliErrorOk, execfile
\* is argv[0], the three arrays are all zero (length 0, capacity 0, data
\* NULL) and CLI_MALLOC was never called; a CliErrorOk return with further
\* tokens leaves every array with live storage and the default capacity.
C7_InvocationPathOnly ==
  /\ Len(argv0) = 1 => pc \in {"main", "returned", "freed"}
  /\ (pc = "returned" /\ Len(argv0) = 1) =>
       /\ ret = CliErrorOk
       /\ cli.execfile = 1
       /\ \A f \in Fields : cli[f] = [length |-> 0, capacity |-> 0, data |-> NULL]
       /\ malloc_calls = 0
       /\ DOMAIN mem = {}
  /\ (ReturnedOk /\ Len(argv0) > 1) =>
       \A f \in Fields :
         /\ cli[f].data # NULL
         /\ cli[f].data \in DOMAIN mem
         /\ cli[f].capacity = CLI_DEFAULT_ARR_CAP

C7_Witness ==
  /\ pc = "returned" /\ Len(argv0) = 1 /\ ret = CliErrorOk
  /\ Deref(cli.execfile) = ExecToken

FieldOrder == <<"args", "cmd_options", "program_options">>

\* C8: when a CLI_MALLOC call of cli_parse returns NULL, cli_parse returns
\* CliErrorFatal at once: no token after argv[0] is popped or stored, the
\* arrays after the failed one are not set up, and the blocks allocated
\* before it stay allocated.
C8_AllocationFailure ==
  /\ (\E f \in Fields : cli[f].data = NULL /\ cli[f].capacity = CLI_DEFAULT_ARR_CAP) =>
       (pc \in {"returned", "freed", "crashed"} /\ ret = CliErrorFatal)
  /\ (pc = "returned" /\ ret = CliErrorFatal) =>
       /\ malloc_calls \in 1..3
       /\ argv = 2 /\ argc = Len(argv0) - 1
       /\ \A b \in DOMAIN mem : \A k \in DOMAIN mem[b] : mem[b][k] = Indeterminate
       /\ Cardinality(DOMAIN mem) = malloc_calls - 1
       /\ \A j \in 1..3 :
            LET a == cli[FieldOrder[j]]
            IN /\ j < malloc_calls => (a.data \in DOMAIN mem /\ a.length = 0)
               /\ j = malloc_calls => a.data = NULL
               /\ j > malloc_calls =>
                    a = [length |-> Indeterminate, capacity |-> Indeterminate,
                         data |-> Indeterminate]

C8_Witness ==
  /\ pc = "returned" /\ ret = CliErrorFatal
  /\ malloc_calls = 2
  /\ Len(argv0) > 2
  /\ cli.args.data \in DOMAIN mem

AllEmpty(s) == \A n \in DOMAIN s : s[n] = <<>>
AllNonEmpty(s) == \A n \in DOMAIN s : s[n] # <<>>

\* C9: the five style strings are all empty or all non-empty in every
\* state; they are all empty until the first cli_toggle_colors call, and
\* each call takes them from all empty to all non-empty or back.
C9_StylesUniform ==
  /\ AllEmpty(Style) \/ AllNonEmpty(Style)
  /\ (pc = "main" /\ toggles = 0) => AllEmpty(Style)
  /\ toggles >= 1 =>
       /\ AllEmpty(before1) \/ AllNonEmpty(before1)
       /\ AllEmpty(Style) <=> AllNonEmpty(before1)

C9_Witness ==
  /\ pc = "returned" /\ toggles = 1
  /\ AllEmpty(Style) /\ AllNonEmpty(before1)

\* C10: two cli_toggle_colors calls in a row leave the five style strings
\* as they were before the two calls, and no step of cli_parse or cli_free
\* changes them.
C10_ToggleTwice ==
  /\ [](toggles = 2 => Style = before2)
  /\ [][(cli_parse_noargv \/ cli_parse_init \/ cli_parse_empty \/ cli_parse_loop
           \/ cli_parse_return \/ cli_free \/ cli_free_crash)
          => UNCHANGED style_vars]_vars

C10_Witness ==
  /\ pc = "freed" /\ toggles = 2
  /\ Style = StylesOn /\ before1 = StylesOff /\ before2 = StylesOn

====
